---------------------------- MODULE Spec2Model ----------------------------
(***************************************************************************)
(* A model of the blog application of python_lecture_11: the tables that   *)
(* blog/models.py declares (Author, BlogPost, BannerImage, BlogPostImage,  *)
(* BlogPostImageDescription) and the admin operations that blog/admin.py   *)
(* registers on them (changelist, add/change/delete views, the             *)
(* export_selected action, the nested image inlines).                      *)
(*                                                                         *)
(* A declaration of models.py or admin.py is modelled by what the          *)
(* framework does for it: unique_together and OneToOneField by the         *)
(* uniqueness validation of the save, on_delete=CASCADE by the collector   *)
(* of the delete, Meta.ordering by the ORDER BY of the query, a ModelAdmin *)
(* without get_queryset by the unfiltered default manager.                 *)
(*                                                                         *)
(* Fields no property reads (authors, website, document, update_date, the  *)
(* image files, the BlogPost order column) are left out of the rows.       *)
(***************************************************************************)
EXTENDS Integers, Sequences, FiniteSets, TLC

VARIABLES
    posts,      \* BlogPost table: id -> [title, text, active, deleted, create_date]
    images,     \* BlogPostImage table: id -> [blog_post, order]
    descs,      \* BlogPostImageDescription table: id -> [blog_post_image, text]
    banners,    \* BannerImage table: id -> [blog_post]
    author,     \* one Author row: [birth_date]
    today,      \* the reading of date.today()
    request,    \* the last request handled (a record with field op)
    response,   \* what the last request returned (a record with field kind)
    submitted,  \* image id -> order value of the last inline save that carried it
    tx          \* the change views being saved: request -> [post, rows, done]

vars == <<posts, images, descs, banners, author, today, request, response,
          submitted, tx>>

-----------------------------------------------------------------------------
(* Bounds of the model *)

MaxPosts == 2
MaxDate == 2
MaxImages == 2
MaxOrder == 2
MaxDescs == 2
MaxBanners == 2
MaxYearSpan == 2
MaxMonth == 3

PostIds == 1..MaxPosts
ImageIds == 1..MaxImages
DescIds == 1..MaxDescs
BannerIds == 1..MaxBanners
Stamps == 1..MaxDate
Orders == 0..MaxOrder

Titles == {"a", "b"}
Texts == {"x", "y"}
Users == [is_superuser : BOOLEAN]
Requests == {"r1", "r2"}

NULL == <<>>
Empty == [i \in {} |-> 0]

\* f without the keys in S
Without(f, S) == [k \in DOMAIN f \ S |-> f[k]]
\* f with key k bound to v
With(f, k, v) == [j \in DOMAIN f \cup {k} |-> IF j = k THEN v ELSE f[j]]

Min(S) == CHOOSE m \in S : \A n \in S : m <= n

NoRequest == [op |-> "none"]
NoResponse == [kind |-> "none"]

-----------------------------------------------------------------------------
(* BlogPost: changelist *)

\* get_queryset narrowed to the active posts for every user
get_queryset_active_only(user) == {id \in DOMAIN posts : posts[id].active}

\* BlogPostAdmin.get_queryset: the registered class defines none, so the
\* ModelAdmin default applies, which returns the model's default manager
\* unfiltered, whoever asks.
get_queryset(user) == DOMAIN posts

\* list_display = ('title', 'active', 'deleted')
list_display(id) ==
    [id |-> id, title |-> posts[id].title,
     active |-> posts[id].active, deleted |-> posts[id].deleted]

\* GET of the BlogPost changelist
ListPosts(user) ==
    /\ request' = [op |-> "changelist", is_superuser |-> user.is_superuser]
    /\ response' = [kind |-> "changelist",
                    rows |-> {list_display(id) : id \in get_queryset(user)},
                    count |-> Cardinality(get_queryset(user))]
    /\ UNCHANGED <<posts, images, descs, banners, author, today, submitted, tx>>

-----------------------------------------------------------------------------
(* BlogPost: add, change, delete *)

\* a BlogPost without unique_together
validate_unique_none(pk, title, text) == TRUE

\* Meta.unique_together = [['title', 'text']]: the check of the model form's
\* validate_unique (and of the table's unique index) for the row pk, pk = 0
\* for a row not yet stored.
validate_unique(pk, title, text) ==
    \A id \in DOMAIN posts \ {pk} :
        ~(posts[id].title = title /\ posts[id].text = text)

\* on_delete=models.CASCADE of BlogPostImage.blog_post: the images that go
\* with the posts in gone
cascade_images(gone) == {i \in DOMAIN images : images[i].blog_post \in gone}

\* BlogPostImageDescription.blog_post_image with on_delete=DO_NOTHING
cascade_descs_none(gone) == {}

\* on_delete=models.CASCADE of BlogPostImageDescription.blog_post_image
cascade_descs(gone) == {d \in DOMAIN descs : descs[d].blog_post_image \in gone}

\* on_delete=models.CASCADE of BannerImage.blog_post
cascade_banners(gone) == {b \in DOMAIN banners : banners[b].blog_post \in gone}

\* POST of the add view. create_date is auto_now_add: the clock reading now.
CreatePost(title, text, active, deleted, now) ==
    /\ request' = [op |-> "add_post", title |-> title, text |-> text]
    /\ IF validate_unique(0, title, text)
       THEN \E id \in PostIds \ DOMAIN posts :
                /\ posts' = With(posts, id,
                               [title |-> title, text |-> text, active |-> active,
                                deleted |-> deleted, create_date |-> now])
                /\ response' = [kind |-> "saved", id |-> id]
       ELSE /\ posts' = posts
            /\ response' = [kind |-> "invalid"]
    /\ UNCHANGED <<images, descs, banners, author, today, submitted, tx>>

\* POST of the change view of post id. create_date is not editable.
EditPost(id, title, text, active, deleted) ==
    /\ id \in DOMAIN posts
    /\ request' = [op |-> "change_post", id |-> id, title |-> title, text |-> text]
    /\ IF validate_unique(id, title, text)
       THEN /\ posts' = [posts EXCEPT ![id] =
                            [title |-> title, text |-> text, active |-> active,
                             deleted |-> deleted, create_date |-> @.create_date]]
            /\ response' = [kind |-> "saved", id |-> id]
       ELSE /\ posts' = posts
            /\ response' = [kind |-> "invalid"]
    /\ UNCHANGED <<images, descs, banners, author, today, submitted, tx>>

\* POST of the delete view of post id: the row and what cascades from it
DeletePost(id) ==
    /\ id \in DOMAIN posts
    /\ request' = [op |-> "delete_post", id |-> id]
    /\ LET gone_images == cascade_images({id})
       IN /\ posts' = Without(posts, {id})
          /\ images' = Without(images, gone_images)
          /\ descs' = Without(descs, cascade_descs(gone_images))
          /\ banners' = Without(banners, cascade_banners({id}))
          /\ submitted' = Without(submitted, gone_images)
          /\ response' = [kind |-> "deleted",
                          images |-> Cardinality(gone_images),
                          descs |-> Cardinality(cascade_descs(gone_images)),
                          banners |-> Cardinality(cascade_banners({id}))]
    /\ UNCHANGED <<author, today, tx>>

-----------------------------------------------------------------------------
(* BlogPost: the export_selected action *)

\* BlogPostResource.Meta.fields
fields == <<"id", "title", "text", "create_date">>

\* one exported field of one row
export_field(id, name) ==
    CASE name = "id" -> id
      [] name = "title" -> posts[id].title
      [] name = "text" -> posts[id].text
      [] name = "create_date" -> posts[id].create_date

\* resource.export(queryset): one row per object of the queryset, the fields
\* in the order of Meta.fields. The rows come in ascending id here.
RECURSIVE export(_)
export(queryset) ==
    IF queryset = {} THEN <<>>
    ELSE LET id == Min(queryset)
         IN <<[k \in 1..Len(fields) |-> export_field(id, fields[k])]>>
                \o export(queryset \ {id})

\* export_selected exporting the model's whole table
export_selected_all(queryset) ==
    [kind |-> "attachment",
     content_type |-> "application/vnd.openxmlformats-officedocument.spreadsheetml.sheet",
     filename |-> "books.xlsx",
     headers |-> fields,
     rows |-> export(DOMAIN posts)]

\* export_selected reading the first object of the queryset before exporting
export_selected_first(queryset) ==
    IF queryset = {} THEN [kind |-> "error"]
    ELSE [kind |-> "attachment",
          content_type |-> "application/vnd.openxmlformats-officedocument.spreadsheetml.sheet",
          filename |-> "books.xlsx",
          headers |-> fields,
          rows |-> export(queryset)]

\* BlogPostAdmin.export_selected(request, queryset)
export_selected(queryset) ==
    [kind |-> "attachment",
     content_type |-> "application/vnd.openxmlformats-officedocument.spreadsheetml.sheet",
     filename |-> "books.xlsx",
     headers |-> fields,
     rows |-> export(queryset)]

\* POST of the changelist with action = export_selected and the ticked ids
\* selected. With nothing ticked the admin runs no action and answers with a
\* message; otherwise the action gets the changelist's queryset narrowed to
\* the ticked ids (an id ticked on a stale page may no longer be stored).
ExportSelected(user, selected) ==
    /\ request' = [op |-> "export_selected", selected |-> selected]
    /\ response' = IF selected = {} THEN [kind |-> "message"]
                   ELSE export_selected(get_queryset(user) \cap selected)
    /\ UNCHANGED <<posts, images, descs, banners, author, today, submitted, tx>>

-----------------------------------------------------------------------------
(* The BlogPost admin: specification *)

Init ==
    /\ posts = Empty
    /\ images = Empty
    /\ descs = Empty
    /\ banners = Empty
    /\ author = [birth_date |-> NULL]
    /\ today = <<2024, 1, 1>>
    /\ request = NoRequest
    /\ response = NoResponse
    /\ submitted = Empty
    /\ tx = Empty

\* The changelist, and the add, change and delete views with every value of
\* the fields the changelist shows or the validation reads. The creation
\* clock, which these do not read, stands at 1.
Next ==
    \/ \E user \in Users : ListPosts(user)
    \/ \E title \in Titles, text \in Texts, active \in BOOLEAN, deleted \in BOOLEAN :
            CreatePost(title, text, active, deleted, 1)
    \/ \E id \in PostIds, title \in Titles, text \in Texts, active \in BOOLEAN,
          deleted \in BOOLEAN :
            EditPost(id, title, text, active, deleted)
    \/ \E id \in PostIds : DeletePost(id)

Spec == Init /\ [][Next]_vars

\* The export action over posts created at any clock reading, their flags at
\* the defaults of the model (active = True, deleted = False).
NextExport ==
    \/ \E title \in Titles, text \in Texts, now \in Stamps :
            CreatePost(title, text, TRUE, FALSE, now)
    \/ \E id \in PostIds : DeletePost(id)
    \/ \E user \in Users, selected \in SUBSET PostIds : ExportSelected(user, selected)

SpecExport == Init /\ [][NextExport]_vars

-----------------------------------------------------------------------------
(* BlogPostImage, BlogPostImageDescription, BannerImage: rows *)

\* BannerImage.blog_post as a plain ForeignKey
banner_unique_fk(pk, post) == TRUE

\* BannerImage.blog_post is a OneToOneField: the uniqueness check of the
\* column for the row pk, pk = 0 for a row not yet stored
banner_unique(pk, post) ==
    \A b \in DOMAIN banners \ {pk} : banners[b].blog_post # post

\* a BlogPostImage saved for a stored post; the order column as given
\* (default 0)
CreateImage(post, order) ==
    /\ post \in DOMAIN posts
    /\ request' = [op |-> "add_image", blog_post |-> post]
    /\ \E id \in ImageIds \ DOMAIN images :
          /\ images' = With(images, id, [blog_post |-> post, order |-> order])
          /\ response' = [kind |-> "saved", id |-> id]
    /\ UNCHANGED <<posts, descs, banners, author, today, submitted, tx>>

\* a BlogPostImage deleted: the row and the descriptions that cascade from it
DeleteImage(id) ==
    /\ id \in DOMAIN images
    /\ request' = [op |-> "delete_image", id |-> id]
    /\ images' = Without(images, {id})
    /\ descs' = Without(descs, cascade_descs({id}))
    /\ submitted' = Without(submitted, {id})
    /\ response' = [kind |-> "deleted", images |-> 1,
                    descs |-> Cardinality(cascade_descs({id})), banners |-> 0]
    /\ UNCHANGED <<posts, banners, author, today, tx>>

\* a BlogPostImageDescription saved for a stored image
CreateDesc(image, text) ==
    /\ image \in DOMAIN images
    /\ request' = [op |-> "add_description", blog_post_image |-> image]
    /\ \E id \in DescIds \ DOMAIN descs :
          /\ descs' = With(descs, id, [blog_post_image |-> image, text |-> text])
          /\ response' = [kind |-> "saved", id |-> id]
    /\ UNCHANGED <<posts, images, banners, author, today, submitted, tx>>

DeleteDesc(id) ==
    /\ id \in DOMAIN descs
    /\ request' = [op |-> "delete_description", id |-> id]
    /\ descs' = Without(descs, {id})
    /\ response' = [kind |-> "deleted", images |-> 0, descs |-> 1, banners |-> 0]
    /\ UNCHANGED <<posts, images, banners, author, today, submitted, tx>>

\* POST of the BannerImage add view; raw_id_fields lets any id be typed, and
\* an id that is no stored post's is invalid
CreateBanner(post) ==
    /\ request' = [op |-> "add_banner", blog_post |-> post]
    /\ IF post \in DOMAIN posts /\ banner_unique(0, post)
       THEN \E id \in BannerIds \ DOMAIN banners :
                /\ banners' = With(banners, id, [blog_post |-> post])
                /\ response' = [kind |-> "saved", id |-> id]
       ELSE /\ banners' = banners
            /\ response' = [kind |-> "invalid"]
    /\ UNCHANGED <<posts, images, descs, author, today, submitted, tx>>

\* POST of the BannerImage change view of banner id
EditBanner(id, post) ==
    /\ id \in DOMAIN banners
    /\ request' = [op |-> "change_banner", id |-> id, blog_post |-> post]
    /\ IF post \in DOMAIN posts /\ banner_unique(id, post)
       THEN /\ banners' = [banners EXCEPT ![id] = [blog_post |-> post]]
            /\ response' = [kind |-> "saved", id |-> id]
       ELSE /\ banners' = banners
            /\ response' = [kind |-> "invalid"]
    /\ UNCHANGED <<posts, images, descs, author, today, submitted, tx>>

DeleteBanner(id) ==
    /\ id \in DOMAIN banners
    /\ request' = [op |-> "delete_banner", id |-> id]
    /\ banners' = Without(banners, {id})
    /\ response' = [kind |-> "deleted", images |-> 0, descs |-> 0, banners |-> 1]
    /\ UNCHANGED <<posts, images, descs, author, today, submitted, tx>>

\* Posts with their images, descriptions and banners, created and deleted.
\* The post fields and the order column, which a delete does not read, are at
\* their defaults.
NextCascade ==
    \/ \E title \in Titles : CreatePost(title, "x", TRUE, FALSE, 1)
    \/ \E id \in PostIds : DeletePost(id)
    \/ \E post \in PostIds : CreateImage(post, 0)
    \/ \E id \in ImageIds : DeleteImage(id)
    \/ \E image \in ImageIds : CreateDesc(image, "x")
    \/ \E id \in DescIds : DeleteDesc(id)
    \/ \E post \in PostIds : CreateBanner(post)
    \/ \E id \in BannerIds : DeleteBanner(id)

SpecCascade == Init /\ [][NextCascade]_vars

\* Posts and their banners, created, changed and deleted
NextBanner ==
    \/ \E title \in Titles : CreatePost(title, "x", TRUE, FALSE, 1)
    \/ \E id \in PostIds, title \in Titles : EditPost(id, title, "x", TRUE, FALSE)
    \/ \E id \in PostIds : DeletePost(id)
    \/ \E post \in 1..(MaxPosts + 1) : CreateBanner(post)
    \/ \E id \in BannerIds, post \in 1..(MaxPosts + 1) : EditBanner(id, post)
    \/ \E id \in BannerIds : DeleteBanner(id)

SpecBanner == Init /\ [][NextBanner]_vars

-----------------------------------------------------------------------------
(* BlogPostImage: the order column, the inline rows of the BlogPost change view *)

images_of(post) == {i \in DOMAIN images : images[i].blog_post = post}
descs_of(post) == {d \in DOMAIN descs : descs[d].blog_post_image \in images_of(post)}

\* the orderings of the set S as sequences
Perms(S) ==
    {f \in [1..Cardinality(S) -> S] : \A a, b \in 1..Cardinality(S) : f[a] = f[b] => a = b}

\* a BlogPostImage.Meta without ordering
ordering_none(seq) == TRUE

\* BlogPostImage.Meta.ordering = ['order']: seq is in the order of the query
ordering(seq) ==
    \A k, l \in 1..Len(seq) : k < l => images[seq[k]].order <= images[seq[l]].order

\* BlogPost.get_images, the inline's queryset: what the query may return.
\* ORDER BY "order" leaves the rows of equal order in any order.
get_images(post) == {seq \in Perms(images_of(post)) : ordering(seq)}

\* the images of a post listed
ListImages(post) ==
    /\ post \in DOMAIN posts
    /\ request' = [op |-> "list_images", blog_post |-> post]
    /\ \E seq \in get_images(post) : response' = [kind |-> "images", rows |-> seq]
    /\ UNCHANGED <<posts, images, descs, banners, author, today, submitted, tx>>

\* the values a form can carry: an order (-1: not a PositiveIntegerField
\* value), a description text ("": blank, and the field is required)
FormOrders == Orders \cup {-1}
FormTexts == Texts \cup {""}

\* the inline forms of the change view of post are valid
all_valid(form) ==
    /\ \A i \in DOMAIN form.orders : form.orders[i] >= 0
    /\ \A d \in DOMAIN form.texts : form.texts[d] # ""

\* the rows of the ids in S, ascending, as a sequence of writes
RECURSIVE image_rows(_, _)
image_rows(S, form) ==
    IF S = {} THEN <<>>
    ELSE LET i == Min(S)
         IN <<[table |-> "image", id |-> i, order |-> form.orders[i], text |-> ""]>>
                \o image_rows(S \ {i}, form)

RECURSIVE desc_rows(_, _)
desc_rows(S, form) ==
    IF S = {} THEN <<>>
    ELSE LET d == Min(S)
         IN <<[table |-> "description", id |-> d, order |-> 0, text |-> form.texts[d]]>>
                \o desc_rows(S \ {d}, form)

\* formset.save(): the forms that changed, the image rows and then their
\* nested description rows
changed_rows(form) ==
    image_rows({i \in DOMAIN form.orders : form.orders[i] # images[i].order}, form)
        \o desc_rows({d \in DOMAIN form.texts : form.texts[d] # descs[d].text}, form)

\* one row written to the tables db = [images, descs]
save_row(db, row) ==
    IF row.table = "image"
    THEN [db EXCEPT !.images[row.id].order = row.order]
    ELSE [db EXCEPT !.descs[row.id].text = row.text]

RECURSIVE save_rows(_, _)
save_rows(db, rows) ==
    IF rows = <<>> THEN db ELSE save_rows(save_row(db, Head(rows)), Tail(rows))

\* the order values a saved form carried, recorded over those of before
record_orders(form) ==
    [i \in DOMAIN submitted \cup DOMAIN form.orders |->
        IF i \in DOMAIN form.orders THEN form.orders[i] ELSE submitted[i]]

\* POST of the change view of post with its inline rows, from validation to
\* commit: the order field of every image of the post, the text of every
\* description of those images. The post's own fields come back as stored,
\* the extra rows blank, no DELETE box ticked.
SaveInlines(post, form) ==
    /\ post \in DOMAIN posts
    /\ DOMAIN form.orders = images_of(post)
    /\ DOMAIN form.texts = descs_of(post)
    /\ request' = [op |-> "change_inlines", blog_post |-> post]
    /\ IF all_valid(form)
       THEN LET db == save_rows([images |-> images, descs |-> descs], changed_rows(form))
            IN /\ images' = db.images
               /\ descs' = db.descs
               /\ submitted' = record_orders(form)
               /\ response' = [kind |-> "saved", id |-> post]
       ELSE /\ UNCHANGED <<images, descs, submitted>>
            /\ response' = [kind |-> "invalid"]
    /\ UNCHANGED <<posts, banners, author, today, tx>>

\* Posts and their images, created, deleted, listed, and reordered through
\* the change view
NextOrder ==
    \/ \E title \in Titles : CreatePost(title, "x", TRUE, FALSE, 1)
    \/ \E id \in PostIds : DeletePost(id)
    \/ \E post \in PostIds, order \in Orders : CreateImage(post, order)
    \/ \E id \in ImageIds : DeleteImage(id)
    \/ \E post \in PostIds : ListImages(post)
    \/ \E post \in DOMAIN posts :
          \E orders \in [images_of(post) -> FormOrders] :
            SaveInlines(post, [orders |-> orders, texts |-> Empty])

SpecOrder == Init /\ [][NextOrder]_vars

-----------------------------------------------------------------------------
(* The change view with its inlines, write by write *)

\* a change view with no transaction around it: each row commits as written
row_committed_autocommit(db, row) == save_row(db, row)

\* BlogPostAdmin defines no changeform_view: the view runs inside the
\* transaction.atomic block of ModelAdmin.changeform_view, and a row written
\* leaves the committed tables as they are until the block is left
row_committed(db, row) == db

\* the rows a request has written and not committed: it holds their locks
locked(r) == {<<tx[r].rows[k].table, tx[r].rows[k].id>> : k \in 1..tx[r].done}

\* POST of the change view of post arrives as request r: the form and its
\* formsets are validated; nothing is written when one of them is invalid
BeginSave(r, post, form) ==
    /\ r \notin DOMAIN tx
    /\ post \in DOMAIN posts
    /\ DOMAIN form.orders = images_of(post)
    /\ DOMAIN form.texts = descs_of(post)
    /\ request' = [op |-> "change_inlines", blog_post |-> post]
    /\ IF all_valid(form)
       THEN /\ tx' = With(tx, r, [post |-> post, form |-> form,
                                  rows |-> changed_rows(form), done |-> 0])
            /\ response' = [kind |-> "saving"]
       ELSE /\ tx' = tx
            /\ response' = [kind |-> "invalid"]
    /\ UNCHANGED <<posts, images, descs, banners, author, today, submitted>>

\* request r writes its next row, once no other request holds the row
SaveRow(r) ==
    /\ r \in DOMAIN tx
    /\ tx[r].done < Len(tx[r].rows)
    /\ LET row == tx[r].rows[tx[r].done + 1]
           db == row_committed([images |-> images, descs |-> descs], row)
       IN /\ \A q \in DOMAIN tx \ {r} : <<row.table, row.id>> \notin locked(q)
          /\ images' = db.images
          /\ descs' = db.descs
    /\ tx' = [tx EXCEPT ![r].done = @ + 1]
    /\ request' = [op |-> "save_row", blog_post |-> tx[r].post]
    /\ response' = [kind |-> "saving"]
    /\ UNCHANGED <<posts, banners, author, today, submitted>>

\* request r has written every row: the atomic block is left and commits
CommitSave(r) ==
    /\ r \in DOMAIN tx
    /\ tx[r].done = Len(tx[r].rows)
    /\ LET db == save_rows([images |-> images, descs |-> descs], tx[r].rows)
       IN /\ images' = db.images
          /\ descs' = db.descs
    /\ submitted' = record_orders(tx[r].form)
    /\ tx' = Without(tx, {r})
    /\ request' = [op |-> "commit", blog_post |-> tx[r].post]
    /\ response' = [kind |-> "saved", id |-> tx[r].post]
    /\ UNCHANGED <<posts, banners, author, today>>

\* a write of request r raises (a database error, a deadlock it is the victim
\* of): the atomic block is left by the exception and rolls back
FailSave(r) ==
    /\ r \in DOMAIN tx
    /\ tx[r].done < Len(tx[r].rows)
    /\ tx' = Without(tx, {r})
    /\ request' = [op |-> "rollback", blog_post |-> tx[r].post]
    /\ response' = [kind |-> "error", written |-> tx[r].done]
    /\ UNCHANGED <<posts, images, descs, banners, author, today, submitted>>

\* One post with two images and a description of the first, as CreatePost,
\* CreateImage and CreateDesc leave them
InitSave ==
    /\ posts = (1 :> [title |-> "a", text |-> "x", active |-> TRUE,
                      deleted |-> FALSE, create_date |-> 1])
    /\ images = (1 :> [blog_post |-> 1, order |-> 0]) @@ (2 :> [blog_post |-> 1, order |-> 0])
    /\ descs = (1 :> [blog_post_image |-> 1, text |-> "x"])
    /\ banners = Empty
    /\ author = [birth_date |-> NULL]
    /\ today = <<2024, 1, 1>>
    /\ request = NoRequest
    /\ response = NoResponse
    /\ submitted = Empty
    /\ tx = Empty

\* Two change views of the post saved at once, their writes interleaved
NextSave ==
    \/ \E r \in Requests, post \in DOMAIN posts :
          \E orders \in [images_of(post) -> {-1, 0, 1}],
             texts \in [descs_of(post) -> FormTexts] :
            BeginSave(r, post, [orders |-> orders, texts |-> texts])
    \/ \E r \in Requests : SaveRow(r)
    \/ \E r \in Requests : CommitSave(r)
    \/ \E r \in Requests : FailSave(r)

SpecSave == InitSave /\ [][NextSave]_vars

-----------------------------------------------------------------------------
(* Author.age *)

IsLeap(y) == (y % 4 = 0 /\ y % 100 # 0) \/ y % 400 = 0

DaysIn(y, m) ==
    IF m = 2 THEN (IF IsLeap(y) THEN 29 ELSE 28)
    ELSE IF m \in {4, 6, 9, 11} THEN 30 ELSE 31

\* the dates of the model, <<year, month, day>>: the first MaxMonth months
\* of the years from 2024 on
Dates ==
    {d \in (2024..(2024 + MaxYearSpan)) \X (1..MaxMonth) \X (1..31) :
        d[3] <= DaysIn(d[1], d[2])}

\* (a, b) <= (c, d)
tuple_le(x, y) == x[1] < y[1] \/ (x[1] = y[1] /\ x[2] <= y[2])

\* Python's (a, b) < (c, d)
tuple_lt(x, y) == x[1] < y[1] \/ (x[1] = y[1] /\ x[2] < y[2])

\* Author.age; None.year raises AttributeError
age(self) ==
    IF self.birth_date = NULL THEN [kind |-> "error", value |-> 0]
    ELSE LET born == self.birth_date
         IN [kind |-> "value",
             value |-> today[1] - born[1]
                        - (IF tuple_lt(<<today[2], today[3]>>, <<born[2], born[3]>>)
                           THEN 1 ELSE 0)]

\* the age column of the Author changelist is read
ReadAge ==
    /\ request' = [op |-> "age"]
    /\ response' = age(author)
    /\ UNCHANGED <<posts, images, descs, banners, author, today, submitted, tx>>

\* an Author with any birth date or none, on any day
InitAge ==
    /\ posts = Empty
    /\ images = Empty
    /\ descs = Empty
    /\ banners = Empty
    /\ author \in [birth_date : Dates \cup {NULL}]
    /\ today \in Dates
    /\ request = NoRequest
    /\ response = NoResponse
    /\ submitted = Empty
    /\ tx = Empty

NextAge == ReadAge

SpecAge == InitAge /\ [][NextAge]_vars

-----------------------------------------------------------------------------
(* Properties of the related rows *)

RefIntegrity ==
    /\ \A i \in DOMAIN images : images[i].blog_post \in DOMAIN posts
    /\ \A b \in DOMAIN banners : banners[b].blog_post \in DOMAIN posts
    /\ \A d \in DOMAIN descs : descs[d].blog_post_image \in DOMAIN images

DeleteCascades ==
    request'.op = "delete_post" =>
        LET id == request'.id
            its_images == {i \in DOMAIN images : images[i].blog_post = id}
            its_descs == {d \in DOMAIN descs : descs[d].blog_post_image \in its_images}
            its_banners == {b \in DOMAIN banners : banners[b].blog_post = id}
        IN /\ posts' = [p \in DOMAIN posts \ {id} |-> posts[p]]
           /\ images' = [i \in DOMAIN images \ its_images |-> images[i]]
           /\ descs' = [d \in DOMAIN descs \ its_descs |-> descs[d]]
           /\ banners' = [b \in DOMAIN banners \ its_banners |-> banners[b]]

\* C3: the delete of a post removes, in that one step, the post, its images,
\* the descriptions of those images and its banner, and nothing else; no
\* image or banner ever names a post that is not stored, no description an
\* image that is not stored.
C3_DeleteCascades == []RefIntegrity /\ [][DeleteCascades]_vars

C3_Witness ==
    /\ request.op = "delete_post"
    /\ response.images >= 2
    /\ response.descs >= 1
    /\ response.banners = 1
    /\ DOMAIN images = {}
    /\ DOMAIN descs = {}

AtMostOneBanner ==
    \A b, c \in DOMAIN banners :
        banners[b].blog_post = banners[c].blog_post => b = c

SecondBannerRejected ==
    (/\ request'.op = "add_banner"
     /\ \E b \in DOMAIN banners : banners[b].blog_post = request'.blog_post)
        => (response'.kind = "invalid" /\ banners' = banners)

\* C9: no post is ever named by two banners; the add of a banner for a post
\* that has one is answered invalid and leaves the banners as they were.
C9_OneBannerPerPost == []AtMostOneBanner /\ [][SecondBannerRejected]_vars

C9_Witness ==
    /\ request.op = "add_banner"
    /\ response.kind = "invalid"
    /\ \E b \in DOMAIN banners : banners[b].blog_post = request.blog_post
    /\ Cardinality(DOMAIN banners) = 2

-----------------------------------------------------------------------------
(* Properties of the image order and of the inline save *)

OrdersPersist ==
    \A i \in DOMAIN submitted : i \in DOMAIN images /\ images[i].order = submitted[i]

ListedInSubmittedOrder ==
    request.op = "list_images" =>
        LET rows == response.rows
            its_images == {i \in DOMAIN images : images[i].blog_post = request.blog_post}
        IN /\ Len(rows) = Cardinality(its_images)
           /\ {rows[k] : k \in 1..Len(rows)} = its_images
           /\ \A k, l \in 1..Len(rows) :
                (/\ rows[k] \in DOMAIN submitted
                 /\ rows[l] \in DOMAIN submitted
                 /\ submitted[rows[k]] < submitted[rows[l]]) => k < l

\* C6: the order values a change view submitted for the images of a post
\* stay in the order column of those images until the next save of the
\* view, and every listing of the post's images holds each of them once,
\* an image of the lower submitted order before one of the higher.
C6_ReorderPersists == OrdersPersist /\ ListedInSubmittedOrder

C6_Witness ==
    /\ request.op = "list_images"
    /\ Len(response.rows) = 2
    /\ response.rows[1] \in DOMAIN submitted
    /\ response.rows[2] \in DOMAIN submitted
    /\ submitted[response.rows[1]] < submitted[response.rows[2]]
    /\ response.rows[1] > response.rows[2]

AllOrNothing ==
    (images' # images \/ descs' # descs) =>
        \E r \in DOMAIN tx \ DOMAIN tx' :
            LET rows == tx[r].rows
                written(table) == {rows[k].id : k \in {n \in 1..Len(rows) : rows[n].table = table}}
            IN /\ response'.kind = "saved"
               /\ DOMAIN images' = DOMAIN images
               /\ DOMAIN descs' = DOMAIN descs
               /\ \A k \in 1..Len(rows) :
                     IF rows[k].table = "image"
                     THEN images'[rows[k].id].order = rows[k].order
                     ELSE descs'[rows[k].id].text = rows[k].text
               /\ \A i \in DOMAIN images \ written("image") : images'[i] = images[i]
               /\ \A d \in DOMAIN descs \ written("description") : descs'[d] = descs[d]

\* C7: the stored images and descriptions change only in the step in which a
\* change view commits, and then by every row that request wrote; a request
\* that is invalid, or that fails after some of its writes, or whose writes
\* are interleaved with another request's, leaves no part of its rows stored.
C7_AtomicSave == [][AllOrNothing]_vars

C7_Witness ==
    /\ response.kind = "error"
    /\ response.written >= 1
    /\ \E q \in DOMAIN tx : tx[q].done >= 1 /\ tx[q].done < Len(tx[q].rows)

-----------------------------------------------------------------------------
(* Properties of Author.age *)

DateLe(x, y) ==
    \/ x[1] < y[1]
    \/ x[1] = y[1] /\ x[2] < y[2]
    \/ x[1] = y[1] /\ x[2] = y[2] /\ x[3] <= y[3]

\* the number of anniversaries of b (the same month and day, k years on)
\* that are not after t
WholeYears(b, t) ==
    Cardinality({k \in 1..(t[1] - b[1]) : DateLe(<<b[1] + k, b[2], b[3]>>, t)})

\* C10: for an author born on b, read on a day t with b <= t, age is the
\* number of whole years from b to t, that is t.year - b.year less one
\* exactly when (t.month, t.day) is before (b.month, b.day), and is not
\* negative; for an author with no birth date, age raises.
C10_Age ==
    request.op = "age" =>
        IF author.birth_date = NULL THEN response.kind = "error"
        ELSE LET b == author.birth_date
                 before == \/ today[2] < b[2]
                           \/ today[2] = b[2] /\ today[3] < b[3]
             IN DateLe(b, today) =>
                  /\ response.kind = "value"
                  /\ response.value = WholeYears(b, today)
                  /\ response.value = today[1] - b[1] - (IF before THEN 1 ELSE 0)
                  /\ response.value >= 0

C10_Witness ==
    /\ request.op = "age"
    /\ author.birth_date = <<2024, 2, 29>>
    /\ today = <<2025, 2, 28>>
    /\ response.kind = "value"
    /\ response.value = 0

-----------------------------------------------------------------------------
(* Properties of the BlogPost admin *)

\* A request leaves its record in request and response until the next one, and
\* every operation that writes a table is a request: while request.op names a
\* read, the tables are those the read saw.

\* C1: every row of a changelist served to a user who is not a superuser is
\* an active post.
C1_NonSuperuserSeesOnlyActive ==
    (request.op = "changelist" /\ ~request.is_superuser)
        => \A row \in response.rows : row.active

\* C2: a changelist served to a superuser holds one row for every stored
\* post, whatever its active and deleted flags, and counts them all.
C2_SuperuserSeesAll ==
    (request.op = "changelist" /\ request.is_superuser)
        => /\ response.rows =
                {[id |-> id, title |-> posts[id].title, active |-> posts[id].active,
                  deleted |-> posts[id].deleted] : id \in DOMAIN posts}
           /\ response.count = Cardinality(DOMAIN posts)

C2_Witness ==
    /\ request.op = "changelist"
    /\ request.is_superuser
    /\ \E row \in response.rows : ~row.active
    /\ \E row \in response.rows : row.deleted

NoDuplicatePair ==
    \A i, j \in DOMAIN posts :
        (posts[i].title = posts[j].title /\ posts[i].text = posts[j].text) => i = j

DuplicateRejected ==
    request'.op \in {"add_post", "change_post"} =>
        LET pk == IF request'.op = "change_post" THEN request'.id ELSE 0
            duplicate == \E id \in DOMAIN posts \ {pk} :
                            /\ posts[id].title = request'.title
                            /\ posts[id].text = request'.text
        IN duplicate => (response'.kind = "invalid" /\ posts' = posts)

\* C4: an add or a change whose (title, text) pair is that of another stored
\* post is answered invalid and leaves the table as it was; no two stored
\* posts ever share a (title, text) pair.
C4_UniqueTogether == []NoDuplicatePair /\ [][DuplicateRejected]_vars

C4_Witness ==
    /\ request.op = "add_post"
    /\ response.kind = "invalid"
    /\ \E id \in DOMAIN posts :
          posts[id].title = request.title /\ posts[id].text = request.text

\* the stored posts among the ticked ids
Selection == request.selected \cap DOMAIN posts

\* C5: export_selected on a selection of N posts answers with one .xlsx
\* attachment named books.xlsx whose header is id, title, text, create_date
\* and whose N data rows are the selected posts, one row each, no other.
C5_ExportSelectedRows ==
    (request.op = "export_selected" /\ request.selected # {}) =>
        /\ response.kind = "attachment"
        /\ response.filename = "books.xlsx"
        /\ response.content_type =
             "application/vnd.openxmlformats-officedocument.spreadsheetml.sheet"
        /\ response.headers = <<"id", "title", "text", "create_date">>
        /\ Len(response.rows) = Cardinality(Selection)
        /\ \A k \in 1..Len(response.rows) :
              /\ response.rows[k][1] \in Selection
              /\ response.rows[k] =
                    LET id == response.rows[k][1]
                    IN <<id, posts[id].title, posts[id].text, posts[id].create_date>>
        /\ \A id \in Selection :
              Cardinality({k \in 1..Len(response.rows) : response.rows[k][1] = id}) = 1

C5_Witness ==
    /\ request.op = "export_selected"
    /\ response.kind = "attachment"
    /\ Len(response.rows) = 1
    /\ Cardinality(DOMAIN posts) = 2

=============================================================================
